---- MODULE Spec2Model ----
(***************************************************************************)
(* The Whisp group registry and anonymous-signal validator                 *)
(* (contract Whisp, packages/hardhat/deploy/004_deploy_arkanon.ts          *)
(* lines 109-263) as a state machine.  Every external function of the      *)
(* contract is one action; a reverting call leaves the ledger untouched    *)
(* and is visible only in the call record `last`.  Beside it, the parts of *)
(* the web client that talk to the contract: the CreateGroup page          *)
(* (handleCreate, same file, lines 273-352), fetchGroupMembers and         *)
(* fetchLogsInChunks, each with a specification of its own.                *)
(***************************************************************************)
EXTENDS Integers, Sequences, FiniteSets, TLC

\* ------------------------------------------------------------------ bounds
MaxEvents == 4        \* successful transactions (each emits one event)
FirstGroupId == 5     \* Semaphore's groupCounter when Whisp is deployed
GenesisTime == 100    \* block.timestamp of the first transaction

\* ------------------------------------------------------------------ inputs
ZeroAddress == "0x0"
Addresses == {"Alice", "Bob"}
\* The registry ids callers pass.  The largest one is never assigned, so an
\* unknown id is always among the inputs.
RegistryIds == {0, 1, 2}
Commitments == {101, 102}
Nullifiers == {11, 12}
Messages == {1, 2}
Scopes == {1, 2}
\* The proofs submitted: two that share a nullifier and differ in message and
\* scope, and one with another nullifier.
Proofs ==
  { [nullifier |-> 11, message |-> 1, scope |-> 1],
    [nullifier |-> 11, message |-> 2, scope |-> 2],
    [nullifier |-> 12, message |-> 1, scope |-> 1] }
\* The transactions submitted through the mempool are numbered by these.
TxIds == {1, 2}
EmptyMetadata ==
  [name |-> "", description |-> "", imageUrl |-> "", category |-> ""]
BuildersMetadata ==
  [name |-> "zk-Builders", description |-> "builders", imageUrl |-> "", category |-> "DAO"]
Metadata == {EmptyMetadata, BuildersMetadata}
\* The createGroup calls made: who calls, with which strings.  Either call
\* can be repeated, so two groups can carry the same name.
Creations ==
  { [caller |-> "Alice", md |-> BuildersMetadata],
    [caller |-> "Bob", md |-> EmptyMetadata] }

\* Outcomes of the three calls into the Semaphore contract: "ok" or the
\* revert data the call bubbles up. validateProof can revert because the
\* proof is rejected, or the call can fail to complete at all.
CreateGroupVerdicts == {"ok", "Semaphore: createGroup reverted"}
AddMemberVerdicts == {"ok", "Semaphore: addMember reverted"}
ValidateProofVerdicts ==
  {"ok", "Semaphore: validateProof reverted", "Semaphore: call not completed"}

VARIABLES
  nextGroupIndex,   \* uint256 public nextGroupIndex
  groups,           \* mapping(uint256 => GroupInfo)
  hasJoined,        \* mapping(uint256 => mapping(address => bool))
  nullifierUsed,    \* mapping(uint256 => mapping(uint256 => bool))
  events,           \* the log of emitted events, in emission order
  groupCounter,     \* Semaphore's own group counter (source of groupId)
  blockTimestamp,   \* block.timestamp of the block being mined
  last,             \* record of the most recent call and how it ended
  mempool,          \* transactions submitted but not yet executed
  receipts,         \* what became of every transaction that left the mempool
  client,           \* the CreateGroup page of one browser: where handleCreate is
  arkiv,            \* the entries the metadata store has accepted, in order
  members,          \* a call of fetchGroupMembers: where it is, what it returned
  fetch,            \* a call of fetchLogsInChunks: frames, requests, outcome
  hook              \* a component using one of the Arkiv hooks: state, effects

vars == <<nextGroupIndex, groups, hasJoined, nullifierUsed, events,
          groupCounter, blockTimestamp, last, mempool, receipts,
          client, arkiv, members, fetch, hook>>

\* The state of the web client and of its helpers.
frontend == <<client, arkiv, members, fetch, hook>>

ledger == <<nextGroupIndex, groups, hasJoined, nullifierUsed, events, groupCounter>>

\* The value an unwritten groups[registryId] slot reads as.
ZeroGroupInfo ==
  [groupId |-> 0, creator |-> ZeroAddress, createdAt |-> 0, exists |-> FALSE,
   name |-> "", description |-> "", imageUrl |-> "", category |-> ""]

NoCall ==
  [op |-> "none", caller |-> ZeroAddress, registryId |-> 0, arg |-> 0,
   verdict |-> "ok", result |-> "ok", semCalls |-> <<>>]

\* ------------------------------------------------------------------ hashes
\* keccak256 over the 32-byte encoding of a uint256, as a table over the
\* modelled messages and scopes, scaled to 16-bit digests.
Keccak256(x) ==
  CASE x = 1 -> 45326
    [] x = 2 -> 16531
    [] OTHER -> 10509

FieldHashUnshifted(v) == Keccak256(v)
\* uint256(keccak256(abi.encodePacked(v))) >> 8
FieldHash(v) == Keccak256(v) \div 256

\* ------------------------------------------------------------------ events
GroupCreatedWithoutStrings(registryId, groupId, creator, md, createdAt) ==
  [type |-> "GroupCreated", registryId |-> registryId, groupId |-> groupId,
   creator |-> creator, name |-> "", description |-> "",
   imageUrl |-> "", category |-> "", createdAt |-> createdAt]
GroupCreated(registryId, groupId, creator, md, createdAt) ==
  [type |-> "GroupCreated", registryId |-> registryId, groupId |-> groupId,
   creator |-> creator, name |-> md.name, description |-> md.description,
   imageUrl |-> md.imageUrl, category |-> md.category, createdAt |-> createdAt]

MemberJoined(registryId, groupId, member, commitment, joinedAt) ==
  [type |-> "MemberJoined", registryId |-> registryId, groupId |-> groupId,
   member |-> member, commitment |-> commitment, joinedAt |-> joinedAt]

SignalSent(registryId, groupId, proof, timestamp) ==
  [type |-> "SignalSent", registryId |-> registryId, groupId |-> groupId,
   signalHash |-> FieldHash(proof.message), scopeHash |-> FieldHash(proof.scope),
   nullifier |-> proof.nullifier, timestamp |-> timestamp]

\* emit: the event is appended to the log.
Emit(log, e) == Append(log, e)

EventCount == Len(events)

\* The events of one type, in emission order.
EventsOf(type) == SelectSeq(events, LAMBDA e : e.type = type)

\* ---------------------------------------------------- web client, at rest
\* useScaffoldReadContract's data before the first read has come back.
Undefined == -1

\* The form's fields as useState initialises them.
BlankForm ==
  [name |-> "", description |-> "", imageUrl |-> "", category |-> "General"]

\* The CreateGroup page as first rendered: nothing typed, nothing read yet.
PageLoaded ==
  [pc |-> "idle", nextGroupIndex |-> Undefined, form |-> BlankForm,
   address |-> ZeroAddress, isCreating |-> FALSE, toasts |-> <<>>,
   registryId |-> Undefined, assigned |-> Undefined]

\* No call of fetchGroupMembers has been made.
NotFetching ==
  [pc |-> "idle", registryId |-> 0, latestBlock |-> 0, fromBlock |-> 0,
   result |-> "none", ret |-> <<>>]

\* No call of fetchLogsInChunks has been made.
NotCalled ==
  [call |-> [fromBlock |-> 0, toBlock |-> 0, chunkSize |-> 0],
   stack |-> <<>>, requests |-> <<>>, status |-> "idle", ret |-> <<>>]

\* No component using an Arkiv hook has been rendered.
NotRendered ==
  [kind |-> "none", alive |-> FALSE, input |-> "", address |-> ZeroAddress,
   data |-> <<>>, loading |-> FALSE, error |-> <<>>,
   effects |-> <<>>, requests |-> <<>>]

\* --------------------------------------------------------------- init
Init ==
  /\ nextGroupIndex = 0
  /\ groups = [r \in RegistryIds |-> ZeroGroupInfo]
  /\ hasJoined = [r \in RegistryIds |-> [a \in Addresses |-> FALSE]]
  /\ nullifierUsed = [r \in RegistryIds |-> [n \in Nullifiers |-> FALSE]]
  /\ events = <<>>
  /\ groupCounter = FirstGroupId
  /\ blockTimestamp = GenesisTime
  /\ last = NoCall
  /\ mempool = {}
  /\ receipts = {}
  /\ client = PageLoaded
  /\ arkiv = <<>>
  /\ members = NotFetching
  /\ fetch = NotCalled
  /\ hook = NotRendered

\* Every transaction that goes through is mined in a block of its own, one
\* time unit after the previous one; a reverted one leaves no trace.
NextBlockTime(res) == IF res = "ok" THEN blockTimestamp + 1 ELSE blockTimestamp

\* --------------------------------------------------------------- createGroup
\* registryId = nextGroupIndex++ : the id handed out, and the counter after.
FirstRegistryIdReused(idx) == 0
PreIncrementedRegistryId(idx) == idx + 1
AssignedRegistryId(idx) == idx
IndexAfterCreate(idx) == idx + 1

NewGroupInfoFirstGroupId(groupId, creator, md, timestamp) ==
  [groupId |-> FirstGroupId, creator |-> creator, createdAt |-> timestamp, exists |-> TRUE,
   name |-> md.name, description |-> md.description,
   imageUrl |-> md.imageUrl, category |-> md.category]
\* The GroupInfo literal stored at groups[registryId].
NewGroupInfo(groupId, creator, md, timestamp) ==
  [groupId |-> groupId, creator |-> creator, createdAt |-> timestamp, exists |-> TRUE,
   name |-> md.name, description |-> md.description,
   imageUrl |-> md.imageUrl, category |-> md.category]

createGroupResultUniqueName(caller, md, verdict) ==
  IF \E r \in RegistryIds : groups[r].exists /\ groups[r].name = md.name
    THEN "Name taken" ELSE verdict
\* semaphore.createGroup() is the first statement: its revert is the only
\* way the call fails, whoever calls and whatever the strings are.
createGroupResult(caller, md, verdict) == verdict

IndexConsumedOnFailure(res) == IndexAfterCreate(nextGroupIndex)
\* nextGroupIndex after the call has run to its end with result res.
createGroupNextGroupIndex(res) ==
  IF res = "ok" THEN IndexAfterCreate(nextGroupIndex) ELSE nextGroupIndex

GroupStoredOnFailure(registryId, info, res) == [groups EXCEPT ![registryId] = info]
\* groups after the call has run to its end with result res.
createGroupGroups(registryId, info, res) ==
  IF res = "ok" THEN [groups EXCEPT ![registryId] = info] ELSE groups

EmitAlways(res, e) == Emit(events, e)
\* The log after a call that emits e as its last statement.
EmitIfOk(res, e) == IF res = "ok" THEN Emit(events, e) ELSE events

createGroupBody(caller, md, verdict) ==
  LET res == createGroupResult(caller, md, verdict)
      groupId == groupCounter
      registryId == AssignedRegistryId(nextGroupIndex)
  IN /\ nextGroupIndex + 1 \in RegistryIds
     /\ EventCount < MaxEvents
     /\ last' = [op |-> "createGroup", caller |-> caller, registryId |-> registryId,
                 arg |-> md, verdict |-> verdict, result |-> res,
                 semCalls |-> <<[fn |-> "createGroup", groupId |-> groupId]>>]
     /\ groupCounter' = IF res = "ok" THEN groupCounter + 1 ELSE groupCounter
     /\ nextGroupIndex' = createGroupNextGroupIndex(res)
     /\ groups' = createGroupGroups(registryId,
                      NewGroupInfo(groupId, caller, md, blockTimestamp), res)
     /\ events' = EmitIfOk(res, GroupCreated(registryId, groupId, caller, md, blockTimestamp))
     /\ blockTimestamp' = NextBlockTime(res)
     /\ UNCHANGED <<hasJoined, nullifierUsed>>

\* --------------------------------------------------------------- joinGroup
joinGroupResultOnePerAccount(registryId, caller, verdict) ==
  IF ~groups[registryId].exists THEN "Group not found"
  ELSE IF \E r \in RegistryIds : hasJoined[r][caller] THEN "Already joined"
  ELSE verdict
joinGroupResultNoExistsCheck(registryId, caller, verdict) ==
  IF hasJoined[registryId][caller] THEN "Already joined" ELSE verdict
joinGroupResultSwallowsRevert(registryId, caller, verdict) ==
  IF ~groups[registryId].exists THEN "Group not found"
  ELSE IF hasJoined[registryId][caller] THEN "Already joined"
  ELSE "ok"
joinGroupResultNoJoinedCheck(registryId, caller, verdict) ==
  IF ~groups[registryId].exists THEN "Group not found" ELSE verdict
\* The two require statements, then semaphore.addMember.
joinGroupResult(registryId, caller, verdict) ==
  IF ~groups[registryId].exists THEN "Group not found"
  ELSE IF hasJoined[registryId][caller] THEN "Already joined"
  ELSE verdict

joinGroupSemCallsByRegistryId(registryId, caller, commitment) ==
  IF groups[registryId].exists /\ ~hasJoined[registryId][caller]
    THEN <<[fn |-> "addMember", groupId |-> registryId, commitment |-> commitment]>>
    ELSE <<>>
\* semaphore.addMember is reached only past both require statements.
joinGroupSemCalls(registryId, caller, commitment) ==
  IF groups[registryId].exists /\ ~hasJoined[registryId][caller]
    THEN <<[fn |-> "addMember", groupId |-> groups[registryId].groupId,
            commitment |-> commitment]>>
    ELSE <<>>

HasJoinedNeverMarked(registryId, caller, res) == hasJoined
HasJoinedMarkedBeforeAddMember(registryId, caller, res) ==
  IF res \notin {"Group not found", "Already joined"}
    THEN [hasJoined EXCEPT ![registryId][caller] = TRUE] ELSE hasJoined
\* hasJoined after the call has run to its end with result res.
joinGroupHasJoined(registryId, caller, res) ==
  IF res = "ok" THEN [hasJoined EXCEPT ![registryId][caller] = TRUE] ELSE hasJoined

joinGroupBody(caller, registryId, commitment, verdict) ==
  LET g == groups[registryId]
      res == joinGroupResult(registryId, caller, verdict)
  IN /\ EventCount < MaxEvents
     /\ last' = [op |-> "joinGroup", caller |-> caller, registryId |-> registryId,
                 arg |-> commitment, verdict |-> verdict, result |-> res,
                 semCalls |-> joinGroupSemCalls(registryId, caller, commitment)]
     /\ hasJoined' = joinGroupHasJoined(registryId, caller, res)
     /\ events' = EmitIfOk(res, MemberJoined(registryId, g.groupId, caller,
                                               commitment, blockTimestamp))
     /\ blockTimestamp' = NextBlockTime(res)
     /\ UNCHANGED <<nextGroupIndex, groups, nullifierUsed, groupCounter>>

\* --------------------------------------------------------------- validateSignal
NullifierCheckSkipped(registryId, nullifier) == TRUE
NullifierFreshAnywhere(registryId, nullifier) ==
  \A r \in RegistryIds : ~nullifierUsed[r][nullifier]
\* require(!nullifierUsed[registryId][proof.nullifier], ...)
NullifierFresh(registryId, nullifier) == ~nullifierUsed[registryId][nullifier]

validateSignalResultUpstreamCollapsed(registryId, nullifier, verdict) ==
  IF ~groups[registryId].exists THEN "Group not found"
  ELSE IF ~NullifierFresh(registryId, nullifier) THEN "Nullifier already used"
  ELSE IF verdict = "ok" THEN "ok"
  ELSE "Semaphore: validateProof reverted"
validateSignalResultNoExistsCheck(registryId, nullifier, verdict) ==
  IF ~NullifierFresh(registryId, nullifier) THEN "Nullifier already used" ELSE verdict
validateSignalResultProofFirst(registryId, nullifier, verdict) ==
  IF ~groups[registryId].exists THEN "Group not found"
  ELSE IF verdict # "ok" THEN verdict
  ELSE IF ~NullifierFresh(registryId, nullifier) THEN "Nullifier already used"
  ELSE verdict
\* The two require statements, then semaphore.validateProof.
validateSignalResult(registryId, nullifier, verdict) ==
  IF ~groups[registryId].exists THEN "Group not found"
  ELSE IF ~NullifierFresh(registryId, nullifier) THEN "Nullifier already used"
  ELSE verdict

\* semaphore.validateProof is reached only past both require statements.
validateSignalSemCalls(registryId, nullifier) ==
  IF groups[registryId].exists /\ NullifierFresh(registryId, nullifier)
    THEN <<[fn |-> "validateProof", groupId |-> groups[registryId].groupId,
            nullifier |-> nullifier]>>
    ELSE <<>>

MarkNothing(registryId, nullifier) == nullifierUsed
MarkNullifierRow(registryId, nullifier) ==
  [nullifierUsed EXCEPT ![registryId] = [n \in Nullifiers |-> TRUE]]
\* nullifierUsed[registryId][proof.nullifier] = true
MarkNullifier(registryId, nullifier) ==
  [nullifierUsed EXCEPT ![registryId][nullifier] = TRUE]

NullifierMarkedBeforeProof(registryId, nullifier, res) ==
  IF res \notin {"Group not found", "Nullifier already used"}
    THEN MarkNullifier(registryId, nullifier) ELSE nullifierUsed
\* nullifierUsed after the call has run to its end with result res.
validateSignalNullifierUsed(registryId, nullifier, res) ==
  IF res = "ok" THEN MarkNullifier(registryId, nullifier) ELSE nullifierUsed

SignalSenderUnmarked(registryId, caller) ==
  [hasJoined EXCEPT ![registryId][caller] = FALSE]
SignalSenderMarkedJoined(registryId, caller) ==
  [hasJoined EXCEPT ![registryId][caller] = TRUE]
\* hasJoined after the call: validateSignal neither reads nor writes it, and
\* msg.sender does not occur in its body.
validateSignalHasJoined(registryId, caller) == hasJoined

validateSignalBody(caller, registryId, proof, verdict) ==
  LET g == groups[registryId]
      res == validateSignalResult(registryId, proof.nullifier, verdict)
  IN /\ EventCount < MaxEvents
     /\ last' = [op |-> "validateSignal", caller |-> caller, registryId |-> registryId,
                 arg |-> proof, verdict |-> verdict, result |-> res,
                 semCalls |-> validateSignalSemCalls(registryId, proof.nullifier)]
     /\ nullifierUsed' = validateSignalNullifierUsed(registryId, proof.nullifier, res)
     /\ events' = EmitIfOk(res, SignalSent(registryId, g.groupId, proof, blockTimestamp))
     /\ hasJoined' = validateSignalHasJoined(registryId, caller)
     /\ blockTimestamp' = NextBlockTime(res)
     /\ UNCHANGED <<nextGroupIndex, groups, groupCounter>>

\* --------------------------------------------------------------- views
isMemberAnywhere(registryId, user) == \E r \in RegistryIds : hasJoined[r][user]
\* isMember: the stored join marker, false for a slot never written.
isMember(registryId, user) == hasJoined[registryId][user]

getGroupInfoStrict(registryId) ==
  IF groups[registryId].exists
    THEN [result |-> "ok", ret |-> groups[registryId]]
    ELSE [result |-> "Group not found", ret |-> ZeroGroupInfo]
\* getGroupInfo: the stored slot as it is, with no require in front of it.
getGroupInfo(registryId) == [result |-> "ok", ret |-> groups[registryId]]

\* --------------------------------------------------------------- direct calls
createGroup ==
  \E c \in Creations, verdict \in CreateGroupVerdicts :
    createGroupBody(c.caller, c.md, verdict) /\ UNCHANGED <<mempool, receipts, frontend>>

joinGroup ==
  \E caller \in Addresses, registryId \in RegistryIds, commitment \in Commitments,
     verdict \in AddMemberVerdicts :
    joinGroupBody(caller, registryId, commitment, verdict) /\ UNCHANGED <<mempool, receipts, frontend>>

validateSignal ==
  \E caller \in Addresses, registryId \in RegistryIds, proof \in Proofs,
     verdict \in ValidateProofVerdicts :
    validateSignalBody(caller, registryId, proof, verdict) /\ UNCHANGED <<mempool, receipts, frontend>>

Next ==
  \/ createGroup
  \/ joinGroup
  \/ validateSignal

Spec == Init /\ [][Next]_vars

\* --------------------------------------------------------------- mempool
\* Clients hand validateSignal transactions to the network; the ledger later
\* executes the pending ones one at a time, in any order.
NextTxId == Cardinality(mempool) + Cardinality(receipts) + 1

Pending(caller, registryId, proof) ==
  [id |-> NextTxId,
   caller |-> caller, registryId |-> registryId, proof |-> proof]

Submit ==
  \E caller \in Addresses, registryId \in RegistryIds, proof \in Proofs :
    /\ NextTxId \in TxIds
    /\ mempool' = mempool \cup {Pending(caller, registryId, proof)}
    /\ UNCHANGED <<ledger, blockTimestamp, last, receipts, frontend>>

\* What the ledger reports for an executed transaction: its outcome, whether
\* it ran on an existing group with its nullifier unused, and which
\* transactions were still pending beside it.
Receipt(tx, verdict) ==
  [id |-> tx.id, registryId |-> tx.registryId, nullifier |-> tx.proof.nullifier,
   verdict |-> verdict,
   result |-> validateSignalResult(tx.registryId, tx.proof.nullifier, verdict),
   unseen |-> groups[tx.registryId].exists
                /\ ~nullifierUsed[tx.registryId][tx.proof.nullifier],
   peers |-> {t.id : t \in mempool \ {tx}}]

Execute ==
  \E tx \in mempool, verdict \in ValidateProofVerdicts :
    /\ validateSignalBody(tx.caller, tx.registryId, tx.proof, verdict)
    /\ mempool' = mempool \ {tx}
    /\ receipts' = receipts \cup {Receipt(tx, verdict)}
    /\ UNCHANGED frontend

NextConcurrent ==
  \/ createGroup
  \/ Submit
  \/ Execute

SpecConcurrent == Init /\ [][NextConcurrent]_vars

\* --------------------------------------------------------------- CreateGroup page
\* The account connected in the browser, and what can be typed in the form.
WalletAddresses == {ZeroAddress, "Alice"}
Forms ==
  {BlankForm, BuildersMetadata,
   [name |-> "zk-Builders", description |-> "", imageUrl |-> "", category |-> "General"]}
StoreOutcomes == {"ok", "throws"}

\* useScaffoldReadContract: the page is rendered again with the counter as
\* the contract holds it now.  A running handleCreate keeps the value of the
\* render it was started from.
ReadNextGroupIndex ==
  /\ client.pc = "idle"
  /\ client.nextGroupIndex # nextGroupIndex
  /\ client' = [client EXCEPT !.nextGroupIndex = nextGroupIndex]
  /\ UNCHANGED <<ledger, blockTimestamp, last, mempool, receipts, arkiv, members, fetch, hook>>

\* The three checks handleCreate makes before it does anything.
handleCreateRefusal(form, address) ==
  IF form.name = "" THEN "Please enter a group name"
  ELSE IF form.description = "" THEN "Please enter a group description"
  ELSE IF address = ZeroAddress THEN "Please connect your wallet"
  ELSE "none"

\* handleCreate up to its first await: the checks, then setIsCreating(true).
handleCreateClick ==
  \E form \in Forms, address \in WalletAddresses :
    LET refusal == handleCreateRefusal(form, address)
    IN /\ client.pc = "idle"
       /\ client' =
            IF refusal # "none"
              THEN [client EXCEPT !.form = form, !.address = address,
                                  !.toasts = <<refusal>>]
              ELSE [client EXCEPT !.form = form, !.address = address,
                                  !.toasts = <<>>, !.isCreating = TRUE,
                                  !.pc = "writing"]
       /\ client' # client
       /\ UNCHANGED <<ledger, blockTimestamp, last, mempool, receipts, arkiv, members, fetch, hook>>

\* const registryId = nextGroupIndex ? Number(nextGroupIndex) : 0, with the
\* value the page had read when handleCreate was started.
RegistryIdFromCache(cached) ==
  IF cached = Undefined \/ cached = 0 THEN 0 ELSE cached

\* await writeWhispAsync(createGroup): the transaction is executed.  When it
\* goes through, handleCreate takes the registryId and moves on to the
\* metadata store; when it reverts, the outer catch reports the failure.
handleCreateWrite ==
  \E verdict \in CreateGroupVerdicts :
    /\ client.pc = "writing"
    /\ createGroupBody(client.address, client.form, verdict)
    /\ client' =
         IF createGroupResult(client.address, client.form, verdict) = "ok"
           THEN [client EXCEPT
                   !.pc = "storing",
                   !.assigned = AssignedRegistryId(nextGroupIndex),
                   !.registryId = RegistryIdFromCache(client.nextGroupIndex),
                   !.toasts = Append(@, "Group created on Scroll Sepolia!")]
           ELSE [client EXCEPT
                   !.pc = "idle", !.isCreating = FALSE,
                   !.toasts = Append(@, "Failed to create group")]
    /\ UNCHANGED <<mempool, receipts, arkiv, members, fetch, hook>>

\* The entry storeGroup sends to the metadata store.
GroupMetadata(registryId, form, creator) ==
  [registryId |-> registryId, name |-> form.name, description |-> form.description,
   imageUrl |-> form.imageUrl, category |-> form.category, creator |-> creator]

StoreFailureFailsCreation(outcome) == IF outcome = "ok" THEN "redirect" ELSE "idle"
\* Where handleCreate goes after storeGroup: the inner catch swallows a
\* failure, so the redirect is scheduled either way.
AfterStoreGroup(outcome) == "redirect"

\* The toast shown after storeGroup.
StoreToast(outcome) ==
  IF outcome = "ok" THEN "Metadata stored on Arkiv!"
  ELSE "Group created but metadata not indexed"

\* await storeGroup(..) inside its own try/catch, then the redirect timer
\* and the finally block.
handleCreateStore ==
  \E outcome \in StoreOutcomes :
    /\ client.pc = "storing"
    /\ arkiv' = IF outcome = "ok"
                  THEN Append(arkiv, GroupMetadata(client.registryId, client.form,
                                                   client.address))
                  ELSE arkiv
    /\ client' = [client EXCEPT !.pc = AfterStoreGroup(outcome),
                                !.isCreating = FALSE,
                                !.toasts = Append(@, StoreToast(outcome))]
    /\ UNCHANGED <<ledger, blockTimestamp, last, mempool, receipts, members, fetch, hook>>

\* The timer fires: router.push("/browse-groups") leaves the page.
Redirect ==
  /\ client.pc = "redirect"
  /\ client' = [client EXCEPT !.pc = "browse-groups"]
  /\ UNCHANGED <<ledger, blockTimestamp, last, mempool, receipts, arkiv, members, fetch, hook>>

\* One browser on the CreateGroup page, while other clients create groups.
NextCreateGroupPage ==
  \/ createGroup
  \/ ReadNextGroupIndex
  \/ handleCreateClick
  \/ handleCreateWrite
  \/ handleCreateStore
  \/ Redirect

SpecCreateGroupPage == Init /\ [][NextCreateGroupPage]_vars

\* --------------------------------------------------------------- fetchLogsInChunks
\* The chain has blocks 0..LastBlock; a call asks for at most MaxChunkSize
\* blocks per request and the provider is asked at most MaxRequests times.
LastBlock == 4
MaxChunkSize == 3
MaxRequests == 6

\* The logs on the chain that match the filter, in block order: two in
\* block 1, one in block 2, one in block 4.
MatchingLogs ==
  << [blockNumber |-> 1, logIndex |-> 0], [blockNumber |-> 1, logIndex |-> 1],
     [blockNumber |-> 2, logIndex |-> 0], [blockNumber |-> 4, logIndex |-> 0] >>

\* client.getLogs over [fromBlock, toBlock] when the provider answers.
getLogs(fromBlock, toBlock) ==
  SelectSeq(MatchingLogs,
            LAMBDA l : fromBlock <= l.blockNumber /\ l.blockNumber <= toBlock)

\* How the provider answers a request: with the logs, with a block-range
\* error, or with another error.
GetLogsOutcomes == {"ok", "block range", "other error"}

\* A running call: its parameters, its loop position and the logs so far.
Frame(fromBlock, toBlock, chunkSize) ==
  [fromBlock |-> fromBlock, toBlock |-> toBlock, chunkSize |-> chunkSize,
   currentBlock |-> fromBlock, allLogs |-> <<>>]

\* totalBlocks <= BigInt(chunkSize): the range is fetched in one request.
InOneGo(f) == f.toBlock - f.fromBlock + 1 <= f.chunkSize

EndBlockUnclamped(f) == f.currentBlock + f.chunkSize - 1
\* endBlock of the chunk that starts at currentBlock.
EndBlock(f) ==
  IF f.currentBlock + f.chunkSize - 1 > f.toBlock
    THEN f.toBlock ELSE f.currentBlock + f.chunkSize - 1

ChunkSizeKept(chunkSize) == chunkSize
\* Math.floor(chunkSize / 2): the chunk size of the call that retries a chunk.
HalvedChunkSize(chunkSize) == chunkSize \div 2

\* The range of the request the frame makes next.
RequestRange(f) ==
  IF InOneGo(f) THEN [fromBlock |-> f.fromBlock, toBlock |-> f.toBlock]
  ELSE [fromBlock |-> f.currentBlock, toBlock |-> EndBlock(f)]

\* allLogs.push(...logs); currentBlock = endBlock + 1
Advance(f, logs) ==
  [f EXCEPT !.allLogs = f.allLogs \o logs, !.currentBlock = EndBlock(f) + 1]

\* A call returns logs to the frames that wait for it: the caller appends
\* them and moves to its next chunk, and returns in turn when its loop is
\* over.  The result is the stack left, and the value returned by the
\* outermost call once no frame is left.
RECURSIVE Deliver(_, _)
Deliver(stack, logs) ==
  IF stack = <<>> THEN [stack |-> <<>>, status |-> "returned", ret |-> logs]
  ELSE LET n == Len(stack)
           f == Advance(stack[n], logs)
       IN IF f.currentBlock <= f.toBlock
            THEN [stack |-> [stack EXCEPT ![n] = f], status |-> "running", ret |-> <<>>]
            ELSE Deliver(SubSeq(stack, 1, n - 1), f.allLogs)

\* The call is made.
fetchLogsInChunks ==
  \E fromBlock \in 0..LastBlock, toBlock \in 0..LastBlock, chunkSize \in 1..MaxChunkSize :
    /\ fetch.status = "idle"
    /\ fromBlock <= toBlock
    /\ fetch' = [fetch EXCEPT
                   !.call = [fromBlock |-> fromBlock, toBlock |-> toBlock,
                             chunkSize |-> chunkSize],
                   !.stack = <<Frame(fromBlock, toBlock, chunkSize)>>,
                   !.status = "running"]
    /\ UNCHANGED <<ledger, blockTimestamp, last, mempool, receipts, client, arkiv, members, hook>>

\* The innermost call makes its next getLogs request and the provider
\* answers.  With the logs, a one-request call returns them and a chunked
\* call appends them and goes on; a block-range error inside the loop starts
\* a call for the same chunk with half the chunk size; any other error, and
\* any error of a one-request call, is thrown through every caller.
GetLogsRequest ==
  \E outcome \in GetLogsOutcomes :
    /\ fetch.status = "running"
    /\ Len(fetch.requests) < MaxRequests
    /\ LET n == Len(fetch.stack)
           f == fetch.stack[n]
           range == RequestRange(f)
           logs == getLogs(range.fromBlock, range.toBlock)
           asked == Append(fetch.requests,
                           [fromBlock |-> range.fromBlock, toBlock |-> range.toBlock,
                            outcome |-> outcome])
           after ==
             IF outcome = "ok"
               THEN IF InOneGo(f)
                      THEN Deliver(SubSeq(fetch.stack, 1, n - 1), logs)
                      ELSE Deliver(fetch.stack, logs)
             ELSE IF outcome = "block range" /\ ~InOneGo(f)
               THEN [stack |-> Append(fetch.stack,
                                      Frame(range.fromBlock, range.toBlock,
                                            HalvedChunkSize(f.chunkSize))),
                     status |-> "running", ret |-> <<>>]
             ELSE [stack |-> <<>>, status |-> "thrown", ret |-> <<>>]
       IN fetch' = [fetch EXCEPT !.requests = asked, !.stack = after.stack,
                                 !.status = after.status, !.ret = after.ret]
    /\ UNCHANGED <<ledger, blockTimestamp, last, mempool, receipts, client, arkiv, members, hook>>

NextFetchLogs ==
  \/ fetchLogsInChunks
  \/ GetLogsRequest

SpecFetchLogs == Init /\ [][NextFetchLogs]_vars

\* --------------------------------------------------------------- fetchGroupMembers
\* The window of blocks fetchGroupMembers looks back over, and how many
\* such spans pass without a transaction.
LookbackBlocks == 10000
MaxQuietSpans == 1

\* One block is mined per time unit: the contract is deployed in block 0
\* and a transaction run at time t is in block t - GenesisTime + 1.
BlockNumber(timestamp) == timestamp - GenesisTime + 1

\* client.getBlockNumber(): the last block mined.
LatestBlock == BlockNumber(blockTimestamp) - 1

\* LookbackBlocks blocks are mined with no transaction of the contract.
MineBlocks ==
  /\ LatestBlock + LookbackBlocks <= MaxQuietSpans * LookbackBlocks + MaxEvents
  /\ blockTimestamp' = blockTimestamp + LookbackBlocks
  /\ UNCHANGED <<ledger, last, mempool, receipts, frontend>>

ProviderOutcomes == {"ok", "error"}

\* const fromBlock = latestBlock > 10000n ? latestBlock - 10000n : 0n
LookbackFrom(latestBlock) ==
  IF latestBlock > LookbackBlocks THEN latestBlock - LookbackBlocks ELSE 0

\* fetchGroupMembers up to its second await: the latest block is read and
\* the start of the window is computed from it.
fetchGroupMembersCall ==
  \E registryId \in RegistryIds, outcome \in ProviderOutcomes :
    /\ members.pc = "idle"
    /\ members' =
         IF outcome = "ok"
           THEN [pc |-> "getLogs", registryId |-> registryId,
                 latestBlock |-> LatestBlock, fromBlock |-> LookbackFrom(LatestBlock),
                 result |-> "none", ret |-> <<>>]
           ELSE [pc |-> "done", registryId |-> registryId,
                 latestBlock |-> 0, fromBlock |-> 0,
                 result |-> "throws", ret |-> <<>>]
    /\ members' # members
    /\ UNCHANGED <<ledger, blockTimestamp, last, mempool, receipts, client, arkiv, fetch, hook>>

\* client.getLogs for MemberJoined with args.registryId, over the window.
MemberJoinedLogs(registryId, fromBlock, toBlock) ==
  SelectSeq(events,
            LAMBDA e : /\ e.type = "MemberJoined"
                       /\ e.registryId = registryId
                       /\ fromBlock <= BlockNumber(e.joinedAt)
                       /\ BlockNumber(e.joinedAt) <= toBlock)

\* The loop over the events: every commitment that is not zero is kept.
CommitmentsOf(logs) ==
  LET kept == SelectSeq(logs, LAMBDA e : e.commitment # 0)
  IN [i \in 1..Len(kept) |-> kept[i].commitment]

\* The rest of fetchGroupMembers: the events of the window are read, the
\* commitments are taken from them, and an empty list is an error.
fetchGroupMembersLogs ==
  \E outcome \in ProviderOutcomes :
    /\ members.pc = "getLogs"
    /\ LET commitments ==
             CommitmentsOf(MemberJoinedLogs(members.registryId, members.fromBlock,
                                            members.latestBlock))
       IN members' =
            IF outcome = "ok" /\ commitments # <<>>
              THEN [members EXCEPT !.pc = "done", !.result = "ok", !.ret = commitments]
              ELSE [members EXCEPT !.pc = "done", !.result = "throws"]
    /\ UNCHANGED <<ledger, blockTimestamp, last, mempool, receipts, client, arkiv, fetch, hook>>

\* Groups are created and joined while blocks go by and the members of a
\* group are fetched.
NextGroupMembers ==
  \/ createGroup
  \/ joinGroup
  \/ MineBlocks
  \/ fetchGroupMembersCall
  \/ fetchGroupMembersLogs

SpecGroupMembers == Init /\ [][NextGroupMembers]_vars

\* --------------------------------------------------------------- Arkiv hooks
\* The delay of the search timer, the step in which time is counted, and
\* how many times the effect of a hook runs.
DebounceDelay == 300
TimerStep == 100
MaxEffects == 3

HookKinds ==
  {"useArkivAllGroups", "useArkivGroup", "useArkivGroupsByCreator",
   "useArkivSearchGroups"}

\* The hook's argument (category, registryId, creator or searchTerm), ""
\* for undefined or empty, and contractInfo?.address, ZeroAddress while the
\* contract info is not loaded.
HookInputs == {"", "dao", "vote"}
ContractAddresses == {ZeroAddress, "Whisp"}
FetchOutcomes == {"ok", "error"}

\* useState(true) for loading, except in useArkivSearchGroups.
InitialLoading(kind) == kind # "useArkivSearchGroups"

\* Whether the effect gets as far as a request: every hook needs the
\* contract address, and every hook but useArkivAllGroups its argument.
Fetches(kind, input, address) ==
  /\ address # ZeroAddress
  /\ kind # "useArkivAllGroups" => input # ""

NoTimer == [state |-> "none", age |-> 0]

\* What the Arkiv query for an input returns, and the error of one that fails.
ResultFor(input) == <<[query |-> input]>>
ErrorFor(input) == <<[failed |-> input]>>

\* load() up to its await: setLoading(true), and the request goes out.
load(h, i) ==
  [h EXCEPT !.loading = TRUE,
            !.effects[i].fetch = "inflight",
            !.requests = Append(@, [effect |-> i, input |-> h.effects[i].input])]

\* The effect runs for new inputs.  useArkivSearchGroups sets its timer, the
\* other hooks call load() at once; without address or argument the effect
\* only resets state and returns.
RunEffect(h, input, address) ==
  LET i == Len(h.effects) + 1
      fresh == [input |-> input, address |-> address, mounted |-> TRUE,
                timer |-> NoTimer, fetch |-> "none"]
      g == [h EXCEPT !.input = input, !.address = address,
                     !.effects = Append(@, fresh)]
  IN IF ~Fetches(h.kind, input, address)
       THEN [g EXCEPT !.loading = FALSE,
                      !.data = IF h.kind = "useArkivSearchGroups" THEN <<>> ELSE @]
     ELSE IF h.kind = "useArkivSearchGroups"
       THEN [g EXCEPT !.effects[i].timer = [state |-> "pending", age |-> 0]]
     ELSE load(g, i)

TimerLeftPending(timer) == timer
\* clearTimeout(timeoutId)
ClearTimeout(timer) ==
  IF timer.state = "pending" THEN [timer EXCEPT !.state = "cleared"] ELSE timer

\* The cleanup the effect returned: mounted = false and, in
\* useArkivSearchGroups, clearTimeout.  An effect that returned early has
\* returned no cleanup.
Cleanup(h) ==
  LET i == Len(h.effects)
  IN IF i = 0 \/ ~Fetches(h.kind, h.effects[i].input, h.effects[i].address)
       THEN IF i > 0 /\ h.kind = "useArkivAllGroups"
              THEN [h EXCEPT !.effects[i].mounted = FALSE]
              ELSE h
       ELSE [h EXCEPT !.effects[i].mounted = FALSE,
                      !.effects[i].timer = ClearTimeout(@)]

\* A component that uses one of the hooks is rendered for the first time.
Render ==
  \E kind \in HookKinds, input \in HookInputs, address \in ContractAddresses :
    /\ hook.kind = "none"
    /\ hook' = RunEffect([NotRendered EXCEPT !.kind = kind, !.alive = TRUE,
                                             !.loading = InitialLoading(kind)],
                         input, address)
    /\ UNCHANGED <<ledger, blockTimestamp, last, mempool, receipts, client, arkiv, members, fetch>>

\* The argument or the contract address changes: the cleanup of the last
\* effect runs, then the effect runs again.
ChangeInputs ==
  \E input \in HookInputs, address \in ContractAddresses :
    /\ hook.alive
    /\ Len(hook.effects) < MaxEffects
    /\ <<input, address>> # <<hook.input, hook.address>>
    /\ hook' = RunEffect(Cleanup(hook), input, address)
    /\ UNCHANGED <<ledger, blockTimestamp, last, mempool, receipts, client, arkiv, members, fetch>>

\* The component is removed: the cleanup of the last effect runs.
Unmount ==
  /\ hook.alive
  /\ hook' = [Cleanup(hook) EXCEPT !.alive = FALSE]
  /\ UNCHANGED <<ledger, blockTimestamp, last, mempool, receipts, client, arkiv, members, fetch>>

\* Time passes for a pending timer.
TimerTick ==
  \E i \in 1..Len(hook.effects) :
    /\ hook.effects[i].timer.state = "pending"
    /\ hook.effects[i].timer.age < DebounceDelay
    /\ hook' = [hook EXCEPT !.effects[i].timer.age = @ + TimerStep]
    /\ UNCHANGED <<ledger, blockTimestamp, last, mempool, receipts, client, arkiv, members, fetch>>

\* setTimeout(load, 300): a timer that is still pending after the delay
\* calls load().
TimerFires ==
  \E i \in 1..Len(hook.effects) :
    /\ hook.effects[i].timer.state = "pending"
    /\ hook.effects[i].timer.age >= DebounceDelay
    /\ hook' = load([hook EXCEPT !.effects[i].timer.state = "fired"], i)
    /\ UNCHANGED <<ledger, blockTimestamp, last, mempool, receipts, client, arkiv, members, fetch>>

WritesAlways(effect) == TRUE
\* if (mounted): the guard in front of every set after the await.
MayWrite(effect) == effect.mounted

\* The awaited query of an effect comes back, with data or with an error.
FetchCompletes ==
  \E i \in 1..Len(hook.effects), outcome \in FetchOutcomes :
    /\ hook.effects[i].fetch = "inflight"
    /\ hook' =
         LET h == [hook EXCEPT !.effects[i].fetch = outcome]
             input == hook.effects[i].input
         IN IF ~MayWrite(hook.effects[i]) THEN h
            ELSE IF outcome = "ok"
              THEN [h EXCEPT !.data = ResultFor(input), !.error = <<>>,
                             !.loading = FALSE]
            ELSE [h EXCEPT !.error = ErrorFor(input), !.loading = FALSE]
    /\ UNCHANGED <<ledger, blockTimestamp, last, mempool, receipts, client, arkiv, members, fetch>>

NextArkivHooks ==
  \/ Render
  \/ ChangeInputs
  \/ Unmount
  \/ TimerTick
  \/ TimerFires
  \/ FetchCompletes

SpecArkivHooks == Init /\ [][NextArkivHooks]_vars

\* =============================================================== properties
\* Positions in the log of the SignalSent events of (registryId, nullifier).
Sent(r, n) ==
  {i \in 1..Len(events) : /\ events[i].type = "SignalSent"
                          /\ events[i].registryId = r
                          /\ events[i].nullifier = n}

\* Positions in the log of the MemberJoined events of (registryId, member).
Joined(r, a) ==
  {i \in 1..Len(events) : /\ events[i].type = "MemberJoined"
                          /\ events[i].registryId = r
                          /\ events[i].member = a}

\* C1: for every registryId and nullifier at most one validateSignal ever
\* succeeds, and every validateSignal that follows a success for the same
\* pair fails with "Nullifier already used", whatever its message, scope and
\* the verdict the proof service would give.
C1_AtMostOneSignal ==
  \A r \in RegistryIds, n \in Nullifiers : Cardinality(Sent(r, n)) <= 1

C1_NullifierSingleUse ==
  /\ []C1_AtMostOneSignal
  /\ [][(/\ last'.op = "validateSignal"
          /\ Sent(last'.registryId, last'.arg.nullifier) # {})
         => /\ last'.result = "Nullifier already used"
            /\ events' = events]_vars

\* A replay with another message and scope, and a proof the service would
\* accept, has just been refused.
C1_Witness ==
  /\ last.op = "validateSignal"
  /\ last.verdict = "ok"
  /\ last.result = "Nullifier already used"
  /\ \E i \in Sent(last.registryId, last.arg.nullifier) :
        /\ events[i].signalHash # FieldHash(last.arg.message)
        /\ events[i].scopeHash # FieldHash(last.arg.scope)

\* Two executed transactions that waited in the mempool together, for the
\* same registryId and nullifier, both with proofs the service accepts, x the
\* one executed first.
RacedPair(x, y) ==
  /\ x.id # y.id
  /\ y.id \in x.peers
  /\ x.registryId = y.registryId
  /\ x.nullifier = y.nullifier
  /\ x.verdict = "ok"
  /\ y.verdict = "ok"

\* C2: of two validateSignal transactions with the same registryId and
\* nullifier and accepted proofs that are pending together, the one the
\* ledger executes first on the still unseen nullifier succeeds and the
\* other fails with "Nullifier already used", in either order of execution.
C2_ExactlyOneWins ==
  \A x \in receipts, y \in receipts :
    (RacedPair(x, y) /\ x.unseen)
      => /\ x.result = "ok"
         /\ y.result = "Nullifier already used"

\* Both transactions of a race have been executed, the later submission first.
C2_Witness ==
  \E x \in receipts, y \in receipts :
    /\ RacedPair(x, y)
    /\ x.unseen
    /\ x.id = 2
    /\ y.id = 1

\* C3: a nullifier used for one registryId is still accepted, with a proof
\* the service accepts, for another existing registryId where it is unused.
C3_NullifierScopedPerGroup ==
  [][\A r1 \in RegistryIds, r2 \in RegistryIds, n \in Nullifiers :
       (/\ last'.op = "validateSignal"
        /\ last'.verdict = "ok"
        /\ last'.registryId = r2
        /\ last'.arg.nullifier = n
        /\ r1 # r2
        /\ nullifierUsed[r1][n]
        /\ groups[r2].exists
        /\ ~nullifierUsed[r2][n])
       => /\ last'.result = "ok"
          /\ nullifierUsed'[r2][n]
          /\ nullifierUsed'[r1][n]
          /\ (Sent(r2, n) # {})']_vars

\* The same nullifier has been accepted for two registryIds.
C3_Witness ==
  /\ last.op = "validateSignal"
  /\ last.result = "ok"
  /\ \E r1 \in RegistryIds \ {last.registryId} :
        /\ Sent(r1, last.arg.nullifier) # {}
        /\ Sent(last.registryId, last.arg.nullifier) # {}

\* C4: the k-th successful createGroup returns registryId k-1, whatever
\* joins, signals and failed createGroup calls happen in between.
C4_SequentialRegistryIds ==
  LET created == EventsOf("GroupCreated")
  IN /\ \A k \in 1..Len(created) : created[k].registryId = k - 1
     /\ (last.op = "createGroup" /\ last.result = "ok")
          => last.registryId = Len(created) - 1

\* The second group has been created after a join or a signal.
C4_Witness ==
  /\ last.op = "createGroup"
  /\ last.result = "ok"
  /\ last.registryId = 1
  /\ \E i \in 1..Len(events) : events[i].type # "GroupCreated"

\* C5: groups[r].exists is true exactly for the ids below nextGroupIndex.
C5_ExistsIffBelowNext ==
  \A r \in RegistryIds : groups[r].exists <=> r < nextGroupIndex

C5_Witness ==
  /\ nextGroupIndex = 2
  /\ groups[1].exists
  /\ ~groups[2].exists

\* C6: joinGroup succeeds at most once per registryId and caller; after a
\* success every joinGroup of that caller for that registryId fails with
\* "Already joined", for any commitment, without a call of addMember.
C6_AtMostOneJoin ==
  \A r \in RegistryIds, a \in Addresses : Cardinality(Joined(r, a)) <= 1

C6_JoinOnce ==
  /\ []C6_AtMostOneJoin
  /\ [][(/\ last'.op = "joinGroup"
          /\ Joined(last'.registryId, last'.caller) # {})
         => /\ last'.result = "Already joined"
            /\ last'.semCalls = <<>>
            /\ hasJoined' = hasJoined
            /\ events' = events]_vars

\* A second join with another commitment has just been refused.
C6_Witness ==
  /\ last.op = "joinGroup"
  /\ last.verdict = "ok"
  /\ last.result = "Already joined"
  /\ \E i \in Joined(last.registryId, last.caller) : events[i].commitment # last.arg

\* C7: a validateSignal whose nullifier is already used for the registryId
\* fails with "Nullifier already used" and never reaches validateProof, also
\* when the proof is one the service rejects.
C7_NullifierCheckedBeforeProof ==
  [][(/\ last'.op = "validateSignal"
      /\ nullifierUsed[last'.registryId][last'.arg.nullifier])
     => /\ last'.result = "Nullifier already used"
        /\ last'.semCalls = <<>>]_vars

\* A used nullifier came back with a proof the service rejects.
C7_Witness ==
  /\ last.op = "validateSignal"
  /\ last.verdict # "ok"
  /\ nullifierUsed[last.registryId][last.arg.nullifier]
  /\ last.result = "Nullifier already used"

\* C8: when validateProof fails the call fails with that failure, the
\* nullifier stays unused, nothing is emitted, and the nullifier is still
\* accepted afterwards with a proof the service accepts.
C8_NullifierRecordedOnlyAfterProof ==
  [][\A r \in RegistryIds, n \in Nullifiers :
       (/\ last'.op = "validateSignal"
        /\ last'.registryId = r
        /\ last'.arg.nullifier = n
        /\ last'.semCalls # <<>>
        /\ last'.verdict # "ok")
       => /\ last'.result = last'.verdict
          /\ ~nullifierUsed'[r][n]
          /\ nullifierUsed' = nullifierUsed
          /\ events' = events
          /\ (validateSignalResult(r, n, "ok") = "ok")']_vars

\* validateProof has just rejected a proof.
C8_Witness ==
  /\ last.op = "validateSignal"
  /\ last.semCalls # <<>>
  /\ last.verdict # "ok"
  /\ last.result = last.verdict
  /\ ~nullifierUsed[last.registryId][last.arg.nullifier]

\* C9: a used flag never goes back to unused, and it goes from unused to
\* used only in a successful validateSignal for exactly that registryId and
\* nullifier.
C9_UsedFlagMonotone ==
  [][\A r \in RegistryIds, n \in Nullifiers :
       /\ nullifierUsed[r][n] => nullifierUsed'[r][n]
       /\ (~nullifierUsed[r][n] /\ nullifierUsed'[r][n])
            => /\ last'.op = "validateSignal"
               /\ last'.result = "ok"
               /\ last'.registryId = r
               /\ last'.arg.nullifier = n]_vars

\* A flag set earlier is still set after a later createGroup, while the
\* other nullifier of that group is still unused.
C9_Witness ==
  /\ last.op = "createGroup"
  /\ last.result = "ok"
  /\ nullifierUsed[0][11]
  /\ ~nullifierUsed[0][12]

\* C10: a failing createGroup, joinGroup or validateSignal leaves
\* nextGroupIndex, groups, hasJoined and nullifierUsed as they were and emits
\* no event.
C10_FailureLeavesNoTrace ==
  [][last'.result # "ok"
     => UNCHANGED <<nextGroupIndex, groups, hasJoined, nullifierUsed, events>>]_vars

\* addMember has just failed in a ledger that already holds a group.
C10_Witness ==
  /\ last.op = "joinGroup"
  /\ last.semCalls # <<>>
  /\ last.result = "Semaphore: addMember reverted"
  /\ nextGroupIndex > 0

\* C11: validateSignal on a registryId that was never assigned fails with
\* "Group not found", for every proof and verdict, without a call of the
\* proof service and without a change of storage or log.
C11_ValidateUnknownGroup ==
  [][(/\ last'.op = "validateSignal"
      /\ last'.registryId >= nextGroupIndex)
     => /\ last'.result = "Group not found"
        /\ last'.semCalls = <<>>
        /\ UNCHANGED ledger]_vars

\* A proof the service would accept, with a nullifier never seen, has been
\* refused for an unknown id while another group exists.
C11_Witness ==
  /\ last.op = "validateSignal"
  /\ last.verdict = "ok"
  /\ last.registryId >= nextGroupIndex
  /\ nextGroupIndex > 0
  /\ \A r \in RegistryIds : ~nullifierUsed[r][last.arg.nullifier]
  /\ last.result = "Group not found"

\* C12: joinGroup on a registryId that was never assigned fails with "Group
\* not found", for every caller and commitment, without a call of addMember
\* and without marking the caller as joined.
C12_JoinUnknownGroup ==
  [][\A a \in Addresses :
       (/\ last'.op = "joinGroup"
        /\ last'.caller = a
        /\ last'.registryId >= nextGroupIndex)
       => /\ last'.result = "Group not found"
          /\ last'.semCalls = <<>>
          /\ ~hasJoined'[last'.registryId][a]
          /\ UNCHANGED ledger]_vars

\* A caller that joined an existing group has been refused for an unknown id.
C12_Witness ==
  /\ last.op = "joinGroup"
  /\ last.verdict = "ok"
  /\ last.registryId >= nextGroupIndex
  /\ last.result = "Group not found"
  /\ hasJoined[0][last.caller]
  /\ ~hasJoined[last.registryId][last.caller]

\* C13: when semaphore.createGroup fails, createGroup fails with it, the
\* index and the group table stay as they were and nothing is emitted; every
\* successful createGroup returns the index of its pre-state, and only a
\* successful createGroup moves the index, so the next success returns the id
\* the failed call would have received.
C13_FailedCreateConsumesNoId ==
  [][/\ (last'.op = "createGroup" /\ last'.verdict # "ok")
          => /\ last'.result = last'.verdict
             /\ last'.registryId = nextGroupIndex
             /\ nextGroupIndex' = nextGroupIndex
             /\ groups' = groups
             /\ ~groups'[last'.registryId].exists
             /\ events' = events
     /\ (last'.op = "createGroup" /\ last'.result = "ok")
          => /\ last'.registryId = nextGroupIndex
             /\ groups'[last'.registryId].exists
     /\ (nextGroupIndex' # nextGroupIndex)
          => (last'.op = "createGroup" /\ last'.result = "ok")]_vars

\* The second createGroup has just failed: id 1 is still free.
C13_Witness ==
  /\ last.op = "createGroup"
  /\ last.result = "Semaphore: createGroup reverted"
  /\ last.registryId = 1
  /\ nextGroupIndex = 1
  /\ ~groups[1].exists

\* C14: when addMember fails in joinGroup the call fails with that failure,
\* the caller is not marked joined, no MemberJoined is emitted, and a later
\* joinGroup of the same caller is not refused as already joined.
C14_FailedAddMember ==
  [][\A r \in RegistryIds, a \in Addresses :
       (/\ last'.op = "joinGroup"
        /\ last'.registryId = r
        /\ last'.caller = a
        /\ last'.semCalls # <<>>
        /\ last'.verdict # "ok")
       => /\ last'.result = last'.verdict
          /\ ~hasJoined'[r][a]
          /\ hasJoined' = hasJoined
          /\ events' = events
          /\ (joinGroupResult(r, a, "ok") = "ok")']_vars

\* addMember has just failed for a caller that is not a member.
C14_Witness ==
  /\ last.op = "joinGroup"
  /\ last.semCalls # <<>>
  /\ last.result = "Semaphore: addMember reverted"
  /\ ~hasJoined[last.registryId][last.caller]
  /\ Joined(last.registryId, last.caller) = {}

\* The GroupInfo that the createGroup call behind a GroupCreated event stored.
StoredBy(e) ==
  NewGroupInfo(e.groupId, e.creator,
               [name |-> e.name, description |-> e.description,
                imageUrl |-> e.imageUrl, category |-> e.category],
               e.createdAt)

\* C15: getGroupInfo never fails; for an id >= nextGroupIndex it returns the
\* zero record (exists = false), for an id below it the record createGroup
\* stored, with exists = true.
C15_GetGroupInfoPermissive ==
  \A r \in RegistryIds :
    /\ getGroupInfo(r).result = "ok"
    /\ r >= nextGroupIndex
         => /\ getGroupInfo(r).ret = ZeroGroupInfo
            /\ ~getGroupInfo(r).ret.exists
    /\ r < nextGroupIndex
         => /\ getGroupInfo(r).ret.exists
            /\ \E i \in 1..Len(events) :
                  /\ events[i].type = "GroupCreated"
                  /\ events[i].registryId = r
                  /\ getGroupInfo(r).ret = StoredBy(events[i])

\* One group with empty strings exists and the next id reads as the zero record.
C15_Witness ==
  /\ nextGroupIndex = 1
  /\ getGroupInfo(0).ret.exists
  /\ getGroupInfo(0).ret.name = ""
  /\ getGroupInfo(1).result = "ok"
  /\ getGroupInfo(1).ret = ZeroGroupInfo

\* The number of SignalSent events in the log.
SignalCount == Cardinality({i \in 1..Len(events) : events[i].type = "SignalSent"})

\* C16: a successful validateSignal appends exactly one SignalSent, carrying
\* the call's registryId, the group id stored (and announced) for it and the
\* call's nullifier; a failing one appends nothing; and no other step changes
\* the number of SignalSent events, so that number is the number of
\* successful validateSignal calls.
C16_OneSignalPerSuccess ==
  [][/\ (last'.op = "validateSignal" /\ last'.result = "ok")
          => /\ Len(events') = Len(events) + 1
             /\ SubSeq(events', 1, Len(events)) = events
             /\ SignalCount' = SignalCount + 1
             /\ LET e == events'[Len(events')]
                IN /\ e.type = "SignalSent"
                   /\ e.registryId = last'.registryId
                   /\ e.nullifier = last'.arg.nullifier
                   /\ e.groupId = groups[last'.registryId].groupId
                   /\ \E i \in 1..Len(events) :
                         /\ events[i].type = "GroupCreated"
                         /\ events[i].registryId = e.registryId
                         /\ events[i].groupId = e.groupId
     /\ (last'.op = "validateSignal" /\ last'.result # "ok")
          => events' = events
     /\ (SignalCount' # SignalCount)
          => (last'.op = "validateSignal" /\ last'.result = "ok")]_vars

\* The second signal has just been emitted, in the second group.
C16_Witness ==
  /\ last.op = "validateSignal"
  /\ last.result = "ok"
  /\ last.registryId = 1
  /\ SignalCount = 2
  /\ events[Len(events)].type = "SignalSent"
  /\ events[Len(events)].groupId = groups[1].groupId

\* The designated hash, recomputed from the value alone: keccak256 of the
\* value, shifted right by 8 bits.
DesignatedHash(v) == Keccak256(v) \div (2 ^ 8)

\* C17: the signalHash and scopeHash a successful validateSignal emits are
\* the designated hash of proof.message and of proof.scope, recomputed here
\* from the value alone, as are the hashes of every SignalSent already in
\* the log; so two successful calls with the same message (scope) emit the
\* same signalHash (scopeHash), whatever their registryId, nullifier, caller,
\* time or prior state.
C17_HashesDependOnValueOnly ==
  [][(last'.op = "validateSignal" /\ last'.result = "ok")
       => \E m \in Messages, s \in Scopes :
            /\ m = last'.arg.message
            /\ s = last'.arg.scope
            /\ events'[Len(events')].signalHash = DesignatedHash(m)
            /\ events'[Len(events')].scopeHash = DesignatedHash(s)
            /\ \A i \in 1..Len(events) :
                 events[i].type = "SignalSent" =>
                   /\ events[i].signalHash \in {DesignatedHash(x) : x \in Messages}
                   /\ events[i].scopeHash \in {DesignatedHash(x) : x \in Scopes}]_vars

\* Two successful signals with the same message and scope, sent to
\* different groups with different nullifiers at different times, carry the
\* same two hashes.
C17_Witness ==
  /\ last.op = "validateSignal"
  /\ last.result = "ok"
  /\ \E i \in 1..(Len(events) - 1) :
       LET e == events[i]
           f == events[Len(events)]
       IN /\ e.type = "SignalSent"
          /\ f.type = "SignalSent"
          /\ e.registryId # f.registryId
          /\ e.nullifier # f.nullifier
          /\ e.timestamp # f.timestamp
          /\ e.signalHash = f.signalHash
          /\ e.scopeHash = f.scopeHash
          /\ f.signalHash = DesignatedHash(last.arg.message)

\* The scenario's successful calls, as the events they leave in the log:
\* createGroup, Alice's joinGroup(0, 101), then the signals with nullifier
\* 11 and nullifier 12 in group 0.
ScenarioEvent(i, e) ==
  /\ e.registryId = 0
  /\ CASE i = 1 -> e.type = "GroupCreated"
       [] i = 2 -> e.type = "MemberJoined" /\ e.member = "Alice" /\ e.commitment = 101
       [] i = 3 -> e.type = "SignalSent" /\ e.nullifier = 11
       [] i = 4 -> e.type = "SignalSent" /\ e.nullifier = 12
       [] OTHER -> FALSE

\* The state after the first k successful calls of the scenario, starting
\* from the initial state.
Scenario(k) ==
  /\ Len(events) = k
  /\ \A i \in 1..k : ScenarioEvent(i, events[i])

\* C18: the scenario, step by step from the initial state. createGroup
\* returns registryId 0; then Alice's joinGroup(0, 101) succeeds and
\* isMember(0, Alice) becomes true; then her joinGroup(0, 102) fails with
\* "Already joined"; a valid proof with nullifier 11 is accepted in group 0;
\* submitting nullifier 11 again fails with "Nullifier already used"; a
\* valid proof with nullifier 12 is accepted.
C18_Scenario ==
  [][/\ (Scenario(0) /\ last'.op = "createGroup" /\ last'.verdict = "ok")
          => (last'.result = "ok" /\ last'.registryId = 0 /\ Scenario(1)')
     /\ (Scenario(1) /\ last'.op = "joinGroup" /\ last'.caller = "Alice"
           /\ last'.registryId = 0 /\ last'.arg = 101 /\ last'.verdict = "ok")
          => (last'.result = "ok" /\ ~isMember(0, "Alice")
              /\ isMember(0, "Alice")' /\ Scenario(2)')
     /\ (Scenario(2) /\ last'.op = "joinGroup" /\ last'.caller = "Alice"
           /\ last'.registryId = 0 /\ last'.arg = 102)
          => (last'.result = "Already joined" /\ UNCHANGED ledger)
     /\ (Scenario(2) /\ last'.op = "validateSignal" /\ last'.registryId = 0
           /\ last'.arg.nullifier = 11 /\ last'.verdict = "ok")
          => (last'.result = "ok" /\ Scenario(3)')
     /\ (Scenario(3) /\ last'.op = "validateSignal" /\ last'.registryId = 0
           /\ last'.arg.nullifier = 11)
          => (last'.result = "Nullifier already used" /\ UNCHANGED ledger)
     /\ (Scenario(3) /\ last'.op = "validateSignal" /\ last'.registryId = 0
           /\ last'.arg.nullifier = 12 /\ last'.verdict = "ok")
          => (last'.result = "ok" /\ Scenario(4)')]_vars

\* The end of the scenario: the signal with nullifier 12 has just been
\* accepted, after the group, Alice's membership and the signal with
\* nullifier 11.
C18_Witness ==
  /\ Scenario(4)
  /\ last.op = "validateSignal"
  /\ last.result = "ok"
  /\ last.arg.nullifier = 12
  /\ isMember(0, "Alice")
  /\ nullifierUsed[0][11]

\* C19: each operation changes only the state of its own component.
\* createGroup and joinGroup leave nullifierUsed as it was; validateSignal
\* leaves nextGroupIndex, groups and hasJoined as they were; joinGroup
\* leaves nextGroupIndex and groups as they were; and what isMember and
\* getGroupInfo return is read from the state, which they do not touch.
C19_Frame ==
  [][/\ last'.op \in {"createGroup", "joinGroup"}
          => UNCHANGED nullifierUsed
     /\ last'.op = "validateSignal"
          => UNCHANGED <<nextGroupIndex, groups, hasJoined>>
     /\ last'.op = "joinGroup"
          => UNCHANGED <<nextGroupIndex, groups>>
     /\ UNCHANGED <<groups, hasJoined>>
          => \A r \in RegistryIds, a \in Addresses :
               /\ isMember(r, a)' = isMember(r, a)
               /\ getGroupInfo(r)' = getGroupInfo(r)]_vars

\* Every component holds something, and the last call was a successful
\* validateSignal from an account that has not joined the group.
C19_Witness ==
  /\ last.op = "validateSignal"
  /\ last.result = "ok"
  /\ ~hasJoined[last.registryId][last.caller]
  /\ nextGroupIndex > 0
  /\ \E r \in RegistryIds, a \in Addresses : hasJoined[r][a]
  /\ \E r \in RegistryIds, n \in Nullifiers : nullifierUsed[r][n]

\* The storage of one registryId.
Row(r) == <<groups[r], hasJoined[r], nullifierUsed[r]>>

\* C20: operations on different registryIds are independent. A joinGroup or
\* validateSignal on r1 leaves groups, hasJoined and nullifierUsed of every
\* other registryId as they were; and a joinGroup or validateSignal on any
\* other existing registryId r2 has the same outcome, and leaves the same
\* storage for r2, whether it runs before that call or after it (which is
\* to be shown only for a call that changes the storage of r1). So two such
\* calls on different registryIds reach the same outcomes and the same
\* storage in either order.
C20_CrossRegistryIndependence ==
  [][last'.op \in {"joinGroup", "validateSignal"}
       => \E r1 \in RegistryIds :
            /\ r1 = last'.registryId
            /\ \A r2 \in RegistryIds \ {r1} :
                 /\ Row(r2)' = Row(r2)
                 /\ (groups[r2].exists /\ Row(r1)' # Row(r1)) =>
                      /\ \A a \in Addresses, v \in AddMemberVerdicts :
                           /\ joinGroupResult(r2, a, v)' = joinGroupResult(r2, a, v)
                           /\ (joinGroupHasJoined(r2, a, joinGroupResult(r2, a, v))[r2])'
                                = joinGroupHasJoined(r2, a, joinGroupResult(r2, a, v))[r2]
                      /\ \A n \in Nullifiers, v \in ValidateProofVerdicts :
                           /\ validateSignalResult(r2, n, v)'
                                = validateSignalResult(r2, n, v)
                           /\ (validateSignalNullifierUsed(r2, n,
                                   validateSignalResult(r2, n, v))[r2])'
                                = validateSignalNullifierUsed(r2, n,
                                    validateSignalResult(r2, n, v))[r2]]_vars

\* Both groups exist, an account has joined the first one, and the same
\* account has just joined the second one.
C20_Witness ==
  /\ groups[0].exists
  /\ groups[1].exists
  /\ last.op = "joinGroup"
  /\ last.result = "ok"
  /\ last.registryId = 1
  /\ hasJoined[0][last.caller]
  /\ hasJoined[1][last.caller]

\* C21: a group record, once created, never changes. Every registryId below
\* nextGroupIndex holds an existing record, every existing record (groupId,
\* creator, createdAt, exists, name, description, imageUrl, category) is the
\* same after every step, and nextGroupIndex never decreases.
C21_GroupRecordImmutable ==
  [][/\ nextGroupIndex' >= nextGroupIndex
     /\ \A r \in RegistryIds :
          (r < nextGroupIndex \/ groups[r].exists)
            => /\ groups[r].exists
               /\ groups'[r] = groups[r]]_vars

\* The first group's record is still the one written at time GenesisTime,
\* after a second group was created and two more calls went through.
C21_Witness ==
  /\ nextGroupIndex = 2
  /\ groups[0].exists
  /\ groups[0].createdAt = GenesisTime
  /\ groups[0].groupId = FirstGroupId
  /\ groups[1].exists
  /\ groups[1].groupId # groups[0].groupId
  /\ Len(events) = 4

\* C22: isMember(r, a) is true exactly when a joinGroup for r called by a
\* has succeeded before; it is false for every address where no group
\* exists; it turns true only in the step of such a successful joinGroup,
\* and once true it stays true.
C22_MemberIffJoined ==
  /\ [](\A r \in RegistryIds, a \in Addresses :
         /\ isMember(r, a) <=> (Joined(r, a) # {})
         /\ ~groups[r].exists => ~isMember(r, a))
  /\ [][\A r \in RegistryIds, a \in Addresses :
         /\ isMember(r, a) => isMember(r, a)'
         /\ (~isMember(r, a) /\ isMember(r, a)')
              <=> (/\ last'.op = "joinGroup"
                   /\ last'.result = "ok"
                   /\ last'.registryId = r
                   /\ last'.caller = a)]_vars

\* Alice joined the first group some calls ago and is still a member of
\* it, but not of the second group, which exists; Bob is a member of
\* neither.
C22_Witness ==
  /\ isMember(0, "Alice")
  /\ groups[1].exists
  /\ ~isMember(1, "Alice")
  /\ ~isMember(0, "Bob")
  /\ ~groups[2].exists
  /\ \E i \in Joined(0, "Alice") : i < Len(events)
  /\ last.op # "joinGroup"

\* The error values a failing joinGroup or validateSignal can surface.
ErrorValues ==
  {"Group not found", "Already joined", "Nullifier already used",
   "Semaphore: addMember reverted", "Semaphore: validateProof reverted",
   "Semaphore: call not completed"}

\* C23: a failing joinGroup or validateSignal tells its caller why it
\* failed. The result is "Group not found" exactly when the group does not
\* exist, "Already joined" exactly when the caller of joinGroup has joined
\* it, "Nullifier already used" exactly when the nullifier of validateSignal
\* is used in it, and otherwise it is the revert data of the proof service,
\* unchanged, so a rejected proof and a call that did not complete stay
\* apart; these values are pairwise different.
C23_ErrorsDistinguishable ==
  [][(last'.op \in {"joinGroup", "validateSignal"} /\ last'.result # "ok")
       => \E r \in RegistryIds :
            /\ r = last'.registryId
            /\ last'.result \in ErrorValues
            /\ (last'.result = "Group not found") <=> ~groups[r].exists
            /\ (last'.result = "Already joined")
                 <=> (/\ last'.op = "joinGroup"
                      /\ groups[r].exists
                      /\ hasJoined[r][last'.caller])
            /\ (last'.result = "Nullifier already used")
                 <=> (/\ last'.op = "validateSignal"
                      /\ groups[r].exists
                      /\ nullifierUsed[r][last'.arg.nullifier])
            /\ \A v \in (AddMemberVerdicts \cup ValidateProofVerdicts) \ {"ok"} :
                 (last'.result = v)
                   <=> (/\ last'.verdict = v
                        /\ last'.semCalls # <<>>)]_vars

\* A validateSignal has just failed because the call of the proof service
\* did not complete, in a group where another nullifier is used and the
\* caller could also have met each of the other failures.
C23_Witness ==
  /\ last.op = "validateSignal"
  /\ last.result = "Semaphore: call not completed"
  /\ groups[last.registryId].exists
  /\ \E n \in Nullifiers : nullifierUsed[last.registryId][n]
  /\ \E r \in RegistryIds : ~groups[r].exists
  /\ Cardinality(ErrorValues) = 6

\* C24: createGroup has no failure of its own. Whoever calls it and
\* whatever the metadata strings are, empty or already carried by another
\* group, its result is the result of the proof service's createGroup: it
\* succeeds whenever that call succeeds, and then the group is stored under
\* the caller with those strings.
C24_CreateGroupUnpermissioned ==
  [][last'.op = "createGroup"
       => /\ last'.result = last'.verdict
          /\ last'.verdict = "ok"
               => \E r \in RegistryIds :
                    /\ r = last'.registryId
                    /\ groups'[r].exists
                    /\ groups'[r].creator = last'.caller
                    /\ groups'[r].name = last'.arg.name]_vars

\* A second group with empty strings has just been created, carrying the
\* same name as the first one.
C24_Witness ==
  /\ last.op = "createGroup"
  /\ last.result = "ok"
  /\ last.registryId = 1
  /\ last.arg = EmptyMetadata
  /\ groups[0].exists
  /\ groups[0].name = groups[1].name
  /\ groups[1].name = ""

\* The toasts shown so far by the running handleCreate.
Toasts == {client.toasts[i] : i \in 1..Len(client.toasts)}

\* C25: when storeGroup throws after createGroup went through on chain,
\* the group is not undone and its creation is not reported as failed: the
\* ledger is left as it is, with the group handleCreate created in it, the
\* error ends in the warning toast of the inner catch, and handleCreate
\* goes on to the redirect.
C25_StoreFailureNonCritical ==
  [][(client.pc = "storing" /\ client' # client /\ arkiv' = arkiv)
       => /\ UNCHANGED ledger
          /\ client.assigned \in RegistryIds
          /\ groups'[client.assigned].exists
          /\ groups'[client.assigned].creator = client.address
          /\ client'.pc = "redirect"
          /\ ~client'.isCreating
          /\ client'.toasts = Append(client.toasts, "Group created but metadata not indexed")
          /\ "Group created on Scroll Sepolia!" \in Toasts
          /\ "Failed to create group" \notin Toasts']_vars

\* storeGroup has thrown: nothing is in the metadata store, the group is on
\* chain, and the page is about to redirect.
C25_Witness ==
  /\ client.pc = "redirect"
  /\ arkiv = <<>>
  /\ client.assigned \in RegistryIds
  /\ groups[client.assigned].exists
  /\ groups[client.assigned].name = client.form.name
  /\ "Group created but metadata not indexed" \in Toasts

\* C28: the registryId handleCreate passes to the metadata store is the
\* registryId the contract assigned to the group that handleCreate created,
\* whatever other clients did in between and however old the page's read
\* of nextGroupIndex is.
C28_StoredRegistryIdIsAssigned ==
  /\ client.pc \in {"storing", "redirect", "browse-groups"}
       => client.registryId = client.assigned
  /\ \A i \in 1..Len(arkiv) : arkiv[i].registryId = client.assigned

\* The provider has answered every request of the call with logs.
NoProviderError ==
  \A i \in 1..Len(fetch.requests) : fetch.requests[i].outcome = "ok"

\* What the provider returned for the requests q, in request order.
RECURSIVE RequestedLogs(_)
RequestedLogs(q) ==
  IF q = <<>> THEN <<>>
  ELSE getLogs(q[1].fromBlock, q[1].toBlock) \o RequestedLogs(Tail(q))

\* C26: for fromBlock <= toBlock, chunkSize >= 1 and a provider that never
\* errors, a call that has returned has asked for block ranges that start
\* at fromBlock, end at toBlock, follow one another without gap or overlap
\* and are each between 1 and chunkSize blocks long; and it returns the
\* provider's answers to them joined in that order, which are the logs one
\* getLogs over [fromBlock, toBlock] returns, in ascending block order.
C26_ChunksCoverRange ==
  (fetch.status = "returned" /\ NoProviderError)
    => LET q == fetch.requests
           c == fetch.call
       IN /\ Len(q) >= 1
          /\ q[1].fromBlock = c.fromBlock
          /\ q[Len(q)].toBlock = c.toBlock
          /\ \A i \in 1..(Len(q) - 1) : q[i + 1].fromBlock = q[i].toBlock + 1
          /\ \A i \in 1..Len(q) :
               /\ q[i].fromBlock <= q[i].toBlock
               /\ q[i].toBlock - q[i].fromBlock + 1 <= c.chunkSize
          /\ fetch.ret = RequestedLogs(q)
          /\ fetch.ret = getLogs(c.fromBlock, c.toBlock)
          /\ \A i \in 1..(Len(fetch.ret) - 1) :
               fetch.ret[i].blockNumber <= fetch.ret[i + 1].blockNumber

\* Blocks 0..3 were fetched in chunks of 3 then 1 without an error, and the
\* three logs of those blocks came back, not the one of block 4.
C26_Witness ==
  /\ fetch.status = "returned"
  /\ NoProviderError
  /\ fetch.call = [fromBlock |-> 0, toBlock |-> 3, chunkSize |-> 3]
  /\ Len(fetch.requests) = 2
  /\ fetch.requests[2].fromBlock = 3
  /\ fetch.requests[2].toBlock = 3
  /\ Len(fetch.ret) = 3

\* C27: a call of fetchGroupMembers(registryId) that returns, returns the
\* commitments of all the successful joinGroup calls for registryId that
\* were on chain when it read the latest block, however long ago they were
\* made, in join order, and nothing else.
C27_AllMembersReturned ==
  (members.pc = "done" /\ members.result = "ok")
    => members.ret
         = CommitmentsOf(MemberJoinedLogs(members.registryId, 0, members.latestBlock))

\* The external group id announced for registryId r when it was created.
AnnouncedGroupId(r) ==
  {events[i].groupId : i \in {j \in 1..Len(events) :
      events[j].type = "GroupCreated" /\ events[j].registryId = r}}

\* C29: joinGroup(registryId, c) and validateSignal(registryId, proof) make
\* at most one call of the proof service, addMember with c or validateProof
\* with the proof, and always for the external group id stored in
\* groups[registryId] at creation; a call that goes through has made that
\* call; and the id of another registry entry is never passed.
C29_ProofServiceGetsStoredGroupId ==
  [][last'.op \in {"joinGroup", "validateSignal"}
       => \E r \in RegistryIds :
            /\ r = last'.registryId
            /\ Len(last'.semCalls) <= 1
            /\ last'.result = "ok" => Len(last'.semCalls) = 1
            /\ \A i \in 1..Len(last'.semCalls) :
                 LET call == last'.semCalls[i]
                 IN /\ groups[r].exists
                    /\ call.groupId = groups[r].groupId
                    /\ AnnouncedGroupId(r) = {call.groupId}
                    /\ \A r2 \in RegistryIds \ {r} :
                         groups[r2].exists => call.groupId # groups[r2].groupId
                    /\ last'.op = "joinGroup"
                         => (call.fn = "addMember" /\ call.commitment = last'.arg)
                    /\ last'.op = "validateSignal"
                         => (/\ call.fn = "validateProof"
                             /\ call.nullifier = last'.arg.nullifier)]_vars

\* A proof has just been validated against the second group's external id,
\* which is neither its registryId nor the first group's external id.
C29_Witness ==
  /\ last.op = "validateSignal"
  /\ last.result = "ok"
  /\ last.registryId = 1
  /\ groups[0].exists
  /\ last.semCalls[1].groupId = groups[1].groupId
  /\ last.semCalls[1].groupId # groups[0].groupId
  /\ last.semCalls[1].groupId # last.registryId

\* Positions in the log of the GroupCreated events of registryId r.
Created(r) ==
  {i \in 1..Len(events) : events[i].type = "GroupCreated" /\ events[i].registryId = r}

\* The group table an indexer rebuilds from the GroupCreated events alone.
RebuiltGroups ==
  [r \in RegistryIds |->
     IF Created(r) = {} THEN ZeroGroupInfo
     ELSE LET e == events[CHOOSE i \in Created(r) : TRUE]
          IN [groupId |-> e.groupId, creator |-> e.creator, createdAt |-> e.createdAt,
              exists |-> TRUE, name |-> e.name, description |-> e.description,
              imageUrl |-> e.imageUrl, category |-> e.category]]

\* C30: the group table can be rebuilt from the notifications. In every
\* state each existing record has exactly one GroupCreated event and each
\* GroupCreated event has an existing record, with the same registryId,
\* groupId, creator, name, description, imageUrl, category and createdAt;
\* and a createGroup that goes through appends exactly one GroupCreated
\* event, while no other step adds or removes one.
C30_GroupsRebuiltFromEvents ==
  /\ [](/\ RebuiltGroups = groups
        /\ \A r \in RegistryIds :
             Cardinality(Created(r)) = IF groups[r].exists THEN 1 ELSE 0)
  /\ [][/\ (last'.op = "createGroup" /\ last'.result = "ok")
             => /\ Len(events') = Len(events) + 1
                /\ SubSeq(events', 1, Len(events)) = events
                /\ events'[Len(events')].type = "GroupCreated"
                /\ events'[Len(events')].registryId = last'.registryId
        /\ (\E r \in RegistryIds : Created(r)' # Created(r))
             => (last'.op = "createGroup" /\ last'.result = "ok")]_vars

\* Two groups with different strings and creators are stored, other events
\* have followed, and the table rebuilt from the log is the stored one.
C30_Witness ==
  /\ groups[0].exists
  /\ groups[1].exists
  /\ groups[0].name # groups[1].name
  /\ groups[0].creator # groups[1].creator
  /\ RebuiltGroups = groups
  /\ events[Len(events)].type # "GroupCreated"
  /\ Len(events) = 4

\* The request made in this step, and the frame that made it.
Asked == fetch'.requests[Len(fetch'.requests)]
Asker == fetch.stack[Len(fetch.stack)]

\* C31: a block-range error for a chunk of the loop starts a call for
\* exactly that chunk's range with chunk size floor(chunkSize / 2), while
\* the loop waits at that chunk; when that call returns, its logs are
\* appended and only then the loop moves to the next chunk; any other
\* error, and any error of a call that asks once, is thrown to the caller
\* and no list of logs is returned.
C31_BlockRangeErrorHalvesChunk ==
  /\ [](/\ \A i \in 2..Len(fetch.stack) :
             LET parent == fetch.stack[i - 1]
                 child == fetch.stack[i]
             IN /\ ~InOneGo(parent)
                /\ child.fromBlock = parent.currentBlock
                /\ child.toBlock = EndBlock(parent)
                /\ child.chunkSize = parent.chunkSize \div 2
        /\ fetch.status = "thrown" => (fetch.ret = <<>> /\ fetch.stack = <<>>))
  /\ [][Len(fetch'.requests) = Len(fetch.requests) + 1
         => /\ (Asked.outcome = "block range" /\ ~InOneGo(Asker))
                 => /\ fetch'.status = "running"
                    /\ Len(fetch'.stack) = Len(fetch.stack) + 1
                    /\ SubSeq(fetch'.stack, 1, Len(fetch.stack)) = fetch.stack
                    /\ Asked.fromBlock = Asker.currentBlock
                    /\ Asked.toBlock = EndBlock(Asker)
            /\ (Asked.outcome = "other error"
                   \/ (Asked.outcome = "block range" /\ InOneGo(Asker)))
                 => (fetch'.status = "thrown" /\ fetch'.ret = <<>>)
            /\ (fetch'.status = "running" /\ Len(fetch'.stack) < Len(fetch.stack))
                 => LET k == Len(fetch'.stack)
                        waiting == fetch.stack[k]
                        resumed == fetch'.stack[k]
                    IN /\ Asked.outcome = "ok"
                       /\ SubSeq(fetch'.stack, 1, k - 1) = SubSeq(fetch.stack, 1, k - 1)
                       /\ resumed.currentBlock = EndBlock(waiting) + 1
                       /\ resumed.allLogs
                            = waiting.allLogs
                                \o getLogs(waiting.currentBlock, EndBlock(waiting))]_vars

\* A chunk of three blocks met a block-range error, was fetched again in
\* chunks of one block, and its logs are in the list of the loop, which has
\* moved to the next chunk.
C31_Witness ==
  /\ fetch.status = "running"
  /\ fetch.call.chunkSize = 3
  /\ Len(fetch.stack) = 1
  /\ \E i \in 1..Len(fetch.requests) : fetch.requests[i].outcome = "block range"
  /\ fetch.stack[1].currentBlock = fetch.call.fromBlock + 3
  /\ fetch.stack[1].allLogs
       = getLogs(fetch.call.fromBlock, fetch.call.fromBlock + 2)
  /\ fetch.stack[1].allLogs # <<>>

\* The effects whose search timer is set and has neither fired nor been
\* cleared.
PendingTimers ==
  {i \in 1..Len(hook.effects) : hook.effects[i].timer.state = "pending"}

\* C32: useArkivSearchGroups debounces. At most one timer is pending at any
\* time, and it is the one of the current term and address of a component
\* still in place; a timer that was cleared never leads to a request; a
\* change of the term or the address, and the removal of the component,
\* clear the pending timer; and a request goes out only when the timer of
\* the current term has been pending for the whole delay.
C32_SearchDebounced ==
  /\ [](hook.kind = "useArkivSearchGroups"
          => /\ Cardinality(PendingTimers) <= 1
             /\ \A i \in PendingTimers :
                  /\ hook.alive
                  /\ i = Len(hook.effects)
                  /\ hook.effects[i].input = hook.input
                  /\ hook.effects[i].address = hook.address
             /\ \A i \in 1..Len(hook.effects) :
                  hook.effects[i].timer.state = "cleared"
                    => /\ hook.effects[i].fetch = "none"
                       /\ \A k \in 1..Len(hook.requests) : hook.requests[k].effect # i)
  /\ [][hook.kind = "useArkivSearchGroups"
          => /\ (Len(hook'.effects) > Len(hook.effects) \/ (hook.alive /\ ~hook'.alive))
                  => /\ \A i \in PendingTimers : hook'.effects[i].timer.state = "cleared"
                     /\ hook'.requests = hook.requests
             /\ Len(hook'.requests) > Len(hook.requests)
                  => LET i == Len(hook.effects)
                     IN /\ hook'.requests
                             = Append(hook.requests, [effect |-> i, input |-> hook.input])
                        /\ hook.alive
                        /\ PendingTimers = {i}
                        /\ hook.effects[i].timer.age >= DebounceDelay
                        /\ hook.effects[i].input = hook.input
                        /\ hook.effects[i].address = hook.address
                        /\ hook.input # ""]_vars

\* The term was changed while the first timer was running: that timer was
\* cleared part of the way, the second one ran for the whole delay, and
\* the only request made is the one for the second term.
C32_Witness ==
  /\ hook.kind = "useArkivSearchGroups"
  /\ Len(hook.effects) = 2
  /\ hook.effects[1].timer.state = "cleared"
  /\ hook.effects[1].timer.age > 0
  /\ hook.effects[1].input # hook.effects[2].input
  /\ hook.effects[2].timer.state = "fired"
  /\ hook.requests = <<[effect |-> 2, input |-> hook.input]>>

\* The hooks that call load() at once and guard its writes with mounted.
GuardedHooks == {"useArkivAllGroups", "useArkivGroup", "useArkivGroupsByCreator"}

\* The effects whose query is still awaited.
Inflight == {i \in 1..Len(hook.effects) : hook.effects[i].fetch = "inflight"}

\* C38: in useArkivAllGroups, useArkivGroup and useArkivGroupsByCreator the
\* completion of a query that was started by an earlier run of the effect,
\* or that comes back after the component is gone, changes none of data,
\* error and loading; and when the component is in place and no query is
\* awaited any more, loading is false and the state carries the answer to
\* the query of the latest inputs: its data with no error, or its error.
C38_StaleResponseIgnored ==
  /\ [][hook.kind \in GuardedHooks
          => \A i \in Inflight :
               (/\ hook'.effects[i].fetch # "inflight"
                /\ (i < Len(hook.effects) \/ ~hook.alive))
                 => /\ hook'.data = hook.data
                    /\ hook'.error = hook.error
                    /\ hook'.loading = hook.loading]_vars
  /\ [](/\ hook.kind \in GuardedHooks
         /\ hook.alive
         /\ Inflight = {}
         => LET latest == hook.effects[Len(hook.effects)]
            IN /\ ~hook.loading
               /\ latest.fetch = "ok"
                    => hook.data = ResultFor(latest.input) /\ hook.error = <<>>
               /\ latest.fetch = "error"
                    => hook.error = ErrorFor(latest.input))

\* The inputs changed while the first query was awaited, and the first
\* query was then answered with data while the second is still awaited:
\* the data was not stored (an answer in time would have stored it) and
\* loading is still true.
C38_Witness ==
  /\ hook.kind \in GuardedHooks
  /\ hook.alive
  /\ Len(hook.effects) = 2
  /\ hook.effects[1].input # hook.effects[2].input
  /\ hook.effects[1].fetch = "ok"
  /\ hook.effects[2].fetch = "inflight"
  /\ hook.data = <<>>
  /\ hook.loading

\* C33: validateSignal does not depend on who submits. In every
\* validateSignal step hasJoined stays as it was; the call succeeds when the
\* registryId exists, the nullifier is unused and the proof service accepts,
\* whether or not the caller has joined; and the result, nullifierUsed and
\* the event log after the call are given by the state before it, the
\* registryId, the proof and the verdict of the service alone, with no
\* reference to the caller or to hasJoined, so they are the same for any
\* two callers.
C33_SenderIrrelevant ==
  [][last'.op = "validateSignal"
       => \E r \in RegistryIds, proof \in Proofs, verdict \in ValidateProofVerdicts :
            /\ r = last'.registryId /\ proof = last'.arg /\ verdict = last'.verdict
            /\ UNCHANGED <<hasJoined, nextGroupIndex, groups, groupCounter>>
            /\ (groups[r].exists /\ ~nullifierUsed[r][proof.nullifier] /\ verdict = "ok")
                 => last'.result = "ok"
            /\ last'.result =
                 (IF ~groups[r].exists THEN "Group not found"
                  ELSE IF nullifierUsed[r][proof.nullifier] THEN "Nullifier already used"
                  ELSE verdict)
            /\ nullifierUsed' =
                 (IF last'.result = "ok"
                    THEN [nullifierUsed EXCEPT ![r][proof.nullifier] = TRUE]
                    ELSE nullifierUsed)
            /\ events' =
                 (IF last'.result = "ok"
                    THEN Append(events, SignalSent(r, groups[r].groupId, proof, blockTimestamp))
                    ELSE events)]_vars

\* A signal went through from an account that has not joined the group,
\* while another account has.
C33_Witness ==
  /\ last.op = "validateSignal"
  /\ last.result = "ok"
  /\ ~hasJoined[last.registryId][last.caller]
  /\ \E a \in Addresses \ {last.caller} : hasJoined[last.registryId][a]

\* C34: join markers and used nullifiers exist only for created groups. In
\* every reachable state hasJoined[r][a] implies groups[r].exists, and
\* nullifierUsed[r][n] implies groups[r].exists.
C34_MarkersOnlyForCreatedGroups ==
  \A r \in RegistryIds :
    /\ \A a \in Addresses : hasJoined[r][a] => groups[r].exists
    /\ \A n \in Nullifiers : nullifierUsed[r][n] => groups[r].exists

\* A created group holds a join marker and a used nullifier, and the last
\* call, on a registryId never created, was refused.
C34_Witness ==
  /\ last.op \in {"joinGroup", "validateSignal"}
  /\ last.result = "Group not found"
  /\ ~groups[last.registryId].exists
  /\ \E r \in RegistryIds :
       /\ \E a \in Addresses : hasJoined[r][a]
       /\ \E n \in Nullifiers : nullifierUsed[r][n]

\* C35: the used nullifiers and the event log agree. In every reachable
\* state nullifierUsed[r][n] is true if and only if exactly one SignalSent
\* event with registryId r and nullifier n has been emitted.
C35_NullifierUsedIffOneSignalSent ==
  \A r \in RegistryIds, n \in Nullifiers :
    nullifierUsed[r][n] <=> Cardinality(Sent(r, n)) = 1

\* One nullifier of a group is used and has its one event; the last call,
\* for another nullifier of that group, was refused by the proof service and
\* left neither a mark nor an event.
C35_Witness ==
  /\ last.op = "validateSignal"
  /\ last.result \notin {"ok", "Group not found", "Nullifier already used"}
  /\ ~nullifierUsed[last.registryId][last.arg.nullifier]
  /\ Sent(last.registryId, last.arg.nullifier) = {}
  /\ \E n \in Nullifiers :
       /\ nullifierUsed[last.registryId][n]
       /\ Cardinality(Sent(last.registryId, n)) = 1

\* C36: with a proof service that hands out a fresh group id at every
\* createGroup, distinct existing registryIds hold distinct external group
\* ids, and every join went to the external group of its own registryId,
\* which is the group of no other registryId.
C36_DistinctGroupIds ==
  /\ \A r1, r2 \in RegistryIds :
       (r1 # r2 /\ groups[r1].exists /\ groups[r2].exists)
         => groups[r1].groupId # groups[r2].groupId
  /\ \A i \in 1..Len(events) :
       events[i].type = "MemberJoined"
         => /\ events[i].groupId = groups[events[i].registryId].groupId
            /\ \A r \in RegistryIds \ {events[i].registryId} :
                 groups[r].exists => groups[r].groupId # events[i].groupId

\* Two registryIds exist, and each has had a member added to its external
\* group.
C36_Witness ==
  /\ groups[0].exists
  /\ groups[1].exists
  /\ \E i, j \in 1..Len(events) :
       /\ events[i].type = "MemberJoined" /\ events[i].registryId = 0
       /\ events[j].type = "MemberJoined" /\ events[j].registryId = 1

\* C37: fetchLogsInChunks terminates, whatever the provider answers: it
\* never loops without advancing currentBlock and never recurses forever.
\* Every request that is answered with logs either ends the call that made
\* it or moves the currentBlock of that call forward; and every call that
\* retries a chunk either makes one request or has a smaller chunk size
\* than the call that started it.
C37_EveryAnswerAdvances ==
  [][(/\ fetch.status = "running"
      /\ fetch'.status = "running"
      /\ Len(fetch'.requests) = Len(fetch.requests) + 1)
       => LET n == Len(fetch.stack)
          IN /\ fetch'.requests[Len(fetch'.requests)].outcome = "ok"
                  => \/ Len(fetch'.stack) < n
                     \/ fetch'.stack[n].currentBlock > fetch.stack[n].currentBlock
             /\ Len(fetch'.stack) > n
                  => \/ InOneGo(fetch'.stack[n + 1])
                     \/ fetch'.stack[n + 1].chunkSize < fetch.stack[n].chunkSize]_vars

====
